---- MODULE Spec2Model ----
(***************************************************************************)
(* State-machine model of the client runtime of the RAG Intelligence       *)
(* Platform web front end:                                                 *)
(*   - SSEClient            (web/src/lib/sse.ts)                           *)
(*   - useChat store        (web/src/lib/storage.ts, second module)        *)
(*   - Home / UnifiedInterface handleSendMessage                           *)
(*   - useIngest store      (web/src/lib/storage.ts, third module)         *)
(*                                                                         *)
(* Text is modelled as a sequence of tokens.  For the event stream a token *)
(* is an indivisible run of characters: the literal prefixes "event: " and *)
(* "data: ", an event name, a payload, or the newline "\n".  A read chunk  *)
(* is any non-empty run of consecutive tokens, so chunk boundaries fall    *)
(* between lines, between a prefix and what follows it, and before a       *)
(* newline.                                                                *)
(***************************************************************************)
EXTENDS Integers, Sequences, FiniteSets, TLC

VARIABLES
    retryCount,        \* SSEClient.retryCount
    abortController,   \* SSEClient.abortController: 0 = null, else the connect invocation that owns it
    conn,              \* the connect invocations made so far (a sequence of records)
    timers,            \* retry timers armed by setTimeout and not yet fired
    log,               \* every callback invocation so far, in order (history)
    nCalls,            \* number of caller-initiated connect calls so far
    conversations,     \* useChat.conversations
    currentConversationId,  \* useChat.currentConversationId: 0 = null
    isLoading,         \* useChat.isLoading
    error,             \* useChat.error: "null" or the message
    nextId,            \* the next value of the random part of a generated id
    now,               \* Date.now()
    home,              \* the Home component: its React state and its send in progress
    ui,                \* the UnifiedInterface component: likewise
    lastCall,          \* the store operation called by the last step, with its arguments (history)
    items,             \* useIngest.items
    isUploading,       \* useIngest.isUploading
    nextItemId,        \* the next value of the random part of a generated item id
    uploads,           \* the uploadItem invocations waiting for their backend call
    batches,           \* the uploadAll invocations made so far (a sequence of records)
    retrying           \* the item retryItem has reset and not yet handed to uploadItem: 0 = none

sseVars == <<retryCount, abortController, conn, timers, log, nCalls>>

chatVars == <<conversations, currentConversationId, isLoading, error, nextId, now, home, ui>>

ingestVars == <<items, isUploading, nextItemId, uploads, batches, retrying>>

vars == <<retryCount, abortController, conn, timers, log, nCalls,
          conversations, currentConversationId, isLoading, error, nextId, now, home, ui,
          lastCall, items, isUploading, nextItemId, uploads, batches, retrying>>

(***************************************************************************)
(* Bounds                                                                  *)
(***************************************************************************)
MaxConn == 3        \* connect invocations (caller-initiated and retries) per behaviour
MaxCalls == 2       \* caller-initiated connect calls per behaviour
MaxLines == 4       \* lines of a response body in the parser specification
MaxId == 3          \* generated ids (conversations and messages) per behaviour
MaxTime == 1        \* clock ticks per behaviour
MaxTurns == 1       \* sends per component per behaviour
MaxDeltas == 2      \* message deltas delivered per streamed answer
MaxExtra == 2       \* characters by which the longest message content exceeds the title limit
MaxItems == 3       \* ingest items added per behaviour
MaxBatches == 2     \* uploadAll calls that select something, per behaviour

(***************************************************************************)
(* Program constants                                                       *)
(***************************************************************************)
maxRetries == 3
retryDelay == 1000

NL == "\n"
EventPrefix == "event: "
DataPrefix == "data: "

(***************************************************************************)
(* Text helpers                                                            *)
(***************************************************************************)
\* String.prototype.startsWith for a token-sequence line and a literal prefix
StartsWith(line, prefix) == Len(line) >= 1 /\ line[1] = prefix

\* line.slice(7) / dataLine.slice(6): what follows the literal prefix
SliceAfterPrefix(line) == Tail(line)

\* buffer.split('\n'): the pieces between newlines; always at least one piece
RECURSIVE SplitNL(_)
SplitNL(text) ==
    IF \A i \in 1..Len(text) : text[i] # NL
    THEN <<text>>
    ELSE LET i == CHOOSE k \in 1..Len(text) :
                      text[k] = NL /\ \A m \in 1..(k-1) : text[m] # NL
         IN  <<SubSeq(text, 1, i-1)>> \o SplitNL(SubSeq(text, i+1, Len(text)))

\* Array.prototype.indexOf: the first index holding an equal element (1-based)
IndexOf(lines, line) ==
    CHOOSE j \in 1..Len(lines) :
        lines[j] = line /\ \A m \in 1..(j-1) : lines[m] # line

(***************************************************************************)
(* JSON.parse on the payloads that occur in the model.  A payload that is  *)
(* valid JSON parses to a value; every other text makes JSON.parse throw.  *)
(***************************************************************************)
JsonPayloads == {"\"A\"", "\"B\"", "{}"}

JSONParse(tok) ==
    CASE tok = "\"A\"" -> "A"
      [] tok = "\"B\"" -> "B"
      [] tok = "{}"    -> "{}"

JSONParses(data) == Len(data) = 1 /\ data[1] \in JsonPayloads

HandledKinds == {"message", "citations", "metadata", "error", "done"}

\* SSEClient.handleEvent: the callback invocations caused by one parsed event
handleEvent(eventType, parsedData, at) ==
    IF Len(eventType) = 1 /\ eventType[1] \in HandledKinds
    THEN <<[kind |-> eventType[1], data |-> parsedData, at |-> at]>>
    ELSE <<>>

\* the body of the for-loop for line number i of lines; base is the number
\* of lines of this response consumed by earlier reads
DispatchLine(lines, i, base) ==
    LET line == lines[i] IN
    IF ~StartsWith(line, EventPrefix) THEN <<>>
    ELSE
      LET eventType == SliceAfterPrefix(line)
          k == IndexOf(lines, line) + 1
      IN
      IF k > Len(lines) \/ ~StartsWith(lines[k], DataPrefix) THEN <<>>
      ELSE
        LET data == SliceAfterPrefix(lines[k]) IN
        IF JSONParses(data)
        THEN handleEvent(eventType, <<JSONParse(data[1])>>, base + i)
        ELSE IF eventType = <<"message">>
             THEN <<[kind |-> "message", data |-> data, at |-> base + i]>>
             ELSE <<>>

\* mutant: the lines of a chunk are handled last to first
RECURSIVE DispatchFromReversed(_, _, _)
DispatchFromReversed(lines, i, base) ==
    IF i > Len(lines) THEN <<>>
    ELSE DispatchFromReversed(lines, i + 1, base) \o DispatchLine(lines, i, base)

RECURSIVE DispatchFrom(_, _, _)
DispatchFrom(lines, i, base) ==
    IF i > Len(lines) THEN <<>>
    ELSE DispatchLine(lines, i, base) \o DispatchFrom(lines, i + 1, base)

\* for (const line of lines) { ... }
DispatchLines(lines, base) == DispatchFrom(lines, 1, base)

\* mutant: the text left over from the read before is dropped instead of
\* being put in front of the new text
ProcessChunkDropsBuffer(buffer, chunk, base) ==
    LET pieces == SplitNL(chunk)
        lines == SubSeq(pieces, 1, Len(pieces) - 1)
    IN  [buffer |-> pieces[Len(pieces)],
         nlines |-> Len(lines),
         calls  |-> DispatchLines(lines, base)]

\* one iteration of the read loop on a chunk: the new buffer, the number
\* of complete lines and the callbacks
ProcessChunk(buffer, chunk, base) ==
    LET pieces == SplitNL(buffer \o chunk)
        lines == SubSeq(pieces, 1, Len(pieces) - 1)
    IN  [buffer |-> pieces[Len(pieces)],
         nlines |-> Len(lines),
         calls  |-> DispatchLines(lines, base)]

(***************************************************************************)
(* Response bodies.  A line is event: <name>, data: <payload>, each ended  *)
(* by a newline.                                                           *)
(***************************************************************************)
EventLine(kind) == <<EventPrefix, kind>>
DataLine(payload) == <<DataPrefix, payload>>

RECURSIVE Flatten(_)
Flatten(lines) ==
    IF lines = <<>> THEN <<>> ELSE Head(lines) \o <<NL>> \o Flatten(Tail(lines))

WireKinds == {"message", "done"}
WirePayloads == {"\"A\"", "x"}
LineSet == {EventLine(k) : k \in WireKinds} \cup {DataLine(p) : p \in WirePayloads}

RECURSIVE SeqsUpTo(_, _)
SeqsUpTo(S, n) ==
    IF n = 0 THEN {<<>>}
    ELSE LET shorter == SeqsUpTo(S, n - 1)
         IN  shorter \cup {Append(s, x) : s \in shorter, x \in S}

\* bodies of the parser specification: every sequence of at most MaxLines lines
ParseWires == {Flatten(ls) : ls \in SeqsUpTo(LineSet, MaxLines)}

\* bodies of the lifecycle specification
LifecycleWires ==
    {Flatten(<<EventLine("message"), DataLine("x")>>)}

Queries == {"q1"}

\* the three ways the try block throws before the read loop starts
FailMessages == {"Failed to fetch", "SSE connection failed: 500", "No response body"}
ReadFailMessage == "network error"

(***************************************************************************)
(* useChat: the conversation store.  Strings are sequences of characters.  *)
(* A message is a record whose optional fields are absent until set.  An   *)
(* id is generated from Date.now() and Math.random(); the model draws the  *)
(* random part from a counter, so that two generated ids never coincide.   *)
(***************************************************************************)
DefaultTitle ==
    <<"N", "e", "w", " ", "C", "o", "n", "v", "e", "r", "s", "a", "t", "i", "o", "n">>
TitleLimit == 50
Ellipsis == <<".", ".", ".">>

Min(a, b) == IF a < b THEN a ELSE b

\* String.prototype.slice(0, n)
Slice(str, n) == SubSeq(str, 1, Min(n, Len(str)))

\* { ...a, ...b }
Merge(a, b) ==
    [f \in (DOMAIN a) \cup (DOMAIN b) |-> IF f \in DOMAIN b THEN b[f] ELSE a[f]]

\* Array.prototype.map
Map(seq, F(_)) == [i \in 1..Len(seq) |-> F(seq[i])]

Store == [conversations |-> conversations, currentConversationId |-> currentConversationId]

ConvIds(st) == {st.conversations[i].id : i \in 1..Len(st.conversations)}

\* useChat.getConversation; a record with id 0 stands for null
NoConversation == [id |-> 0, title |-> <<>>, messages |-> <<>>, createdAt |-> 0, updatedAt |-> 0]

getConversation(st, id) ==
    IF id \in ConvIds(st)
    THEN st.conversations[CHOOSE i \in 1..Len(st.conversations) :
                              /\ st.conversations[i].id = id
                              /\ \A j \in 1..(i-1) : st.conversations[j].id # id]
    ELSE NoConversation

\* mutant: the new conversation is put at the end of the list
createConversationAppends(st, title, id, t) ==
    [conversations |->
        st.conversations \o <<[id |-> id, title |-> title, messages |-> <<>>,
                               createdAt |-> t, updatedAt |-> t]>>,
     currentConversationId |-> id]

\* useChat.createConversation(title), with the generated id and the clock
createConversation(st, title, id, t) ==
    [conversations |->
        <<[id |-> id, title |-> title, messages |-> <<>>,
           createdAt |-> t, updatedAt |-> t]>> \o st.conversations,
     currentConversationId |-> id]

\* mutant: the current id is kept when its conversation is deleted
deleteConversationKeepsCurrent(st, id) ==
    [conversations |-> SelectSeq(st.conversations, LAMBDA c : c.id # id),
     currentConversationId |-> st.currentConversationId]

\* useChat.deleteConversation(id)
deleteConversation(st, id) ==
    LET newConversations == SelectSeq(st.conversations, LAMBDA c : c.id # id)
        newCurrentId ==
            IF st.currentConversationId = id
            THEN (IF Len(newConversations) > 0 THEN newConversations[1].id ELSE 0)
            ELSE st.currentConversationId
    IN  [conversations |-> newConversations, currentConversationId |-> newCurrentId]

\* useChat.clearConversations()
clearConversations(st) == [conversations |-> <<>>, currentConversationId |-> 0]

\* useChat.setCurrentConversation(id)
setCurrentConversation(st, id) ==
    [conversations |-> st.conversations, currentConversationId |-> id]

\* the title rule of addMessage
TitleAfter(conv, message) ==
    IF conv.title = DefaultTitle /\ message.role = "user"
    THEN Slice(message.content, TitleLimit)
            \o (IF Len(message.content) > TitleLimit THEN Ellipsis ELSE <<>>)
    ELSE conv.title

\* mutant: a message for an unknown conversation goes to the first conversation
addMessageToFirst(st, conversationId, message, id, t) ==
    LET newMessage == Merge(message, [id |-> id, timestamp |-> t])
        target == IF conversationId \in ConvIds(st) \/ st.conversations = <<>>
                  THEN conversationId
                  ELSE st.conversations[1].id
    IN  [conversations |->
            Map(st.conversations, LAMBDA c :
                IF c.id = target
                THEN [c EXCEPT !.messages = c.messages \o <<newMessage>>,
                               !.updatedAt = t,
                               !.title = TitleAfter(c, message)]
                ELSE c),
         currentConversationId |-> st.currentConversationId]

\* mutant: the new message is put in front of the list
addMessagePrepends(st, conversationId, message, id, t) ==
    LET newMessage == Merge(message, [id |-> id, timestamp |-> t])
    IN  [conversations |->
            Map(st.conversations, LAMBDA c :
                IF c.id = conversationId
                THEN [c EXCEPT !.messages = <<newMessage>> \o c.messages,
                               !.updatedAt = t,
                               !.title = TitleAfter(c, message)]
                ELSE c),
         currentConversationId |-> st.currentConversationId]

\* useChat.addMessage(conversationId, message), with the generated id and the clock
addMessage(st, conversationId, message, id, t) ==
    LET newMessage == Merge(message, [id |-> id, timestamp |-> t])
    IN  [conversations |->
            Map(st.conversations, LAMBDA c :
                IF c.id = conversationId
                THEN [c EXCEPT !.messages = Append(c.messages, newMessage),
                               !.updatedAt = t,
                               !.title = TitleAfter(c, message)]
                ELSE c),
         currentConversationId |-> st.currentConversationId]

\* mutant: an update for a conversation that is not in the list puts a
\* conversation of that id back
updateMessageCreates(st, conversationId, messageId, updates, t) ==
    IF conversationId \in ConvIds(st)
    THEN [conversations |->
             Map(st.conversations, LAMBDA c :
                 IF c.id = conversationId
                 THEN [c EXCEPT !.messages =
                             Map(c.messages, LAMBDA m :
                                 IF m.id = messageId THEN Merge(m, updates) ELSE m),
                                !.updatedAt = t]
                 ELSE c),
          currentConversationId |-> st.currentConversationId]
    ELSE [conversations |->
             <<[id |-> conversationId, title |-> DefaultTitle,
                messages |-> <<Merge([id |-> messageId], updates)>>,
                createdAt |-> t, updatedAt |-> t]>> \o st.conversations,
          currentConversationId |-> st.currentConversationId]

\* mutant: the matching message is replaced by the update instead of merged
updateMessageReplaces(st, conversationId, messageId, updates, t) ==
    [conversations |->
        Map(st.conversations, LAMBDA c :
            IF c.id = conversationId
            THEN [c EXCEPT !.messages =
                        Map(c.messages, LAMBDA m :
                            IF m.id = messageId THEN Merge([id |-> m.id], updates) ELSE m),
                           !.updatedAt = t]
            ELSE c),
     currentConversationId |-> st.currentConversationId]

\* useChat.updateMessage(conversationId, messageId, updates), with the clock
updateMessage(st, conversationId, messageId, updates, t) ==
    [conversations |->
        Map(st.conversations, LAMBDA c :
            IF c.id = conversationId
            THEN [c EXCEPT !.messages =
                        Map(c.messages, LAMBDA m :
                            IF m.id = messageId THEN Merge(m, updates) ELSE m),
                           !.updatedAt = t]
            ELSE c),
     currentConversationId |-> st.currentConversationId]

Hello == <<"H", "e", "l", "l", "o">>
Hi == <<"H", "i">>
There == <<" ", "t", "h", "e", "r", "e">>

\* inputs of the store specification
Titles == {DefaultTitle}
UserContents == {Hello, DefaultTitle}
MessageInputs ==
    {[role |-> "user", content |-> c] : c \in UserContents}
    \cup {[role |-> "assistant", content |-> <<>>, isStreaming |-> TRUE]}
UpdateInputs ==
    {[content |-> Hi, error |-> "boom", isStreaming |-> FALSE]}
\* inputs of the store specification that records the operation called
StoreMessages ==
    {[role |-> "user", content |-> Hello],
     [role |-> "assistant", content |-> <<>>, isStreaming |-> TRUE]}
StoreUpdates ==
    {[content |-> Hi, isStreaming |-> FALSE],
     [error |-> "boom", isStreaming |-> FALSE]}

\* message contents of every length around the title limit
Fill(n) == [i \in 1..n |-> "x"]
ContentLengths ==
    {0, 1, TitleLimit - 1, TitleLimit, TitleLimit + 1, TitleLimit + MaxExtra}
TitleContents == {Fill(n) : n \in ContentLengths} \cup {Hello, DefaultTitle}
TitleMessages ==
    {[role |-> "user", content |-> c] : c \in TitleContents}
    \cup {[role |-> "assistant", content |-> Hello]}

\* the ids a caller can pass: null (0), which names nothing, and every id
\* generated so far, whether it names a conversation, a message, or (after a
\* deletion) nothing any more
IdInputs == 0..(nextId - 1)

\* deleteConversation takes a string, never null: every id generated so far
DeleteInputs == IdInputs \ {0}

\* for the operations that only look an id up, every id that names nothing
\* behaves as null does: the conversation ids and the message ids a caller
\* can usefully pass
ConvIdInputs == {0} \cup ConvIds(Store)
MsgIdInputs(conversationId) ==
    LET c == getConversation(Store, conversationId)
    IN  {0} \cup {c.messages[j].id : j \in 1..Len(c.messages)}

\* no store operation called yet
NoCall == [op |-> "none"]

HomeIdle ==
    [pc |-> "idle", isStreaming |-> FALSE, currentStreamingMessage |-> <<>>,
     currentCitations |-> <<>>, currentMetadata |-> "null",
     conversationId |-> 0, assistantMessageId |-> 0,
     capturedMessage |-> <<>>, capturedCitations |-> <<>>,
     placeholderId |-> 0, delivered |-> <<>>, turns |-> 0, outcome |-> "none"]

UIIdle ==
    [pc |-> "idle", isLoading |-> FALSE, conversationId |-> 0, assistantMessageId |-> 0,
     placeholderId |-> 0, turns |-> 0, outcome |-> "none"]

(***************************************************************************)
(* SSEClient                                                               *)
(***************************************************************************)
Init ==
    /\ retryCount = 0
    /\ abortController = 0
    /\ conn = <<>>
    /\ timers = {}
    /\ log = <<>>
    /\ nCalls = 0
    /\ conversations = <<>>
    /\ currentConversationId = 0
    /\ isLoading = FALSE
    /\ error = "null"
    /\ nextId = 1
    /\ now = 0
    /\ home = HomeIdle
    /\ ui = UIIdle
    /\ lastCall = NoCall
    /\ items = <<>>
    /\ isUploading = FALSE
    /\ nextItemId = 1
    /\ uploads = {}
    /\ batches = <<>>
    /\ retrying = 0

Live(n) == n \in 1..Len(conn) /\ conn[n].pc # "ended"

Callback(n, kind, data) ==
    [cb |-> conn[n].cb, conn |-> n, kind |-> kind, data |-> data, at |-> 0]

EventCallbacks(n, calls) ==
    [i \in 1..Len(calls) |->
        [cb |-> conn[n].cb, conn |-> n, kind |-> calls[i].kind,
         data |-> calls[i].data, at |-> calls[i].at]]

\* AbortController.abort() on the controller held by the client, if any
Abort(c, ac) ==
    IF ac = 0 \/ c[ac].aborted THEN c
    ELSE [c EXCEPT ![ac].aborted = TRUE,
                   ![ac].cancelled = c[ac].pc,
                   ![ac].cancelLog = Len(log)]

\* mutant: disconnect drops the controller without aborting it
disconnectNoAbort ==
    [conn |-> conn, abortController |-> 0, retryCount |-> 0]

\* SSEClient.disconnect: the values it leaves in the three fields
disconnect ==
    [conn |-> Abort(conn, abortController), abortController |-> 0, retryCount |-> 0]

NewConn(query, cb, top, by) ==
    [query |-> query, cb |-> cb, top |-> top, by |-> by,
     pc |-> "fetching", aborted |-> FALSE, cancelled |-> "no", cancelLog |-> 0,
     wire |-> <<>>, rest |-> <<>>, buffer |-> <<>>, seen |-> 0, chunks |-> 0,
     failed |-> "no"]

\* SSEClient.connect up to its first await: disconnect(), new AbortController, fetch
connect(query, cb, top, by) ==
    LET d == disconnect IN
    /\ Len(conn) < MaxConn
    /\ conn' = Append(d.conn, NewConn(query, cb, top, by))
    /\ abortController' = Len(conn) + 1
    /\ retryCount' = d.retryCount

\* a caller invokes sseClient.connect(query, callbacks) with fresh callbacks
Connect(query) ==
    /\ nCalls < MaxCalls
    /\ connect(query, nCalls + 1, TRUE, 0)
    /\ nCalls' = nCalls + 1
    /\ UNCHANGED <<timers, log>>
    /\ UNCHANGED <<chatVars, lastCall, ingestVars>>

\* a caller invokes sseClient.disconnect()
Disconnect ==
    LET d == disconnect IN
    /\ conn' = d.conn
    /\ abortController' = d.abortController
    /\ retryCount' = d.retryCount
    /\ UNCHANGED <<timers, log, nCalls>>
    /\ UNCHANGED <<chatVars, lastCall, ingestVars>>

\* the catch block for an error that is not an AbortError
Catch(n, message) ==
    /\ conn' = [conn EXCEPT ![n].pc = "ended", ![n].failed = conn[n].pc]
    /\ IF retryCount < maxRetries
       THEN /\ retryCount' = retryCount + 1
            /\ timers' = timers \cup
                 {[query |-> conn[n].query, cb |-> conn[n].cb, by |-> n,
                   delay |-> retryDelay * (retryCount + 1)]}
            /\ log' = log
       ELSE /\ retryCount' = retryCount
            /\ timers' = timers
            /\ log' = log \o <<Callback(n, "error", <<message>>),
                               Callback(n, "close", <<>>)>>
    /\ UNCHANGED <<abortController, nCalls>>
    /\ UNCHANGED <<chatVars, lastCall, ingestVars>>

\* fetch rejects, answers with a non-2xx status, or answers without a body
FetchFail(n, message) ==
    /\ Live(n) /\ conn[n].pc = "fetching" /\ ~conn[n].aborted
    /\ Catch(n, message)

\* fetch resolves with an ok response whose body will carry wire
FetchOk(n, wire) ==
    /\ Live(n) /\ conn[n].pc = "fetching" /\ ~conn[n].aborted
    /\ conn' = [conn EXCEPT ![n].pc = "reading", ![n].wire = wire, ![n].rest = wire]
    /\ log' = Append(log, Callback(n, "open", <<>>))
    /\ UNCHANGED <<retryCount, abortController, timers, nCalls>>
    /\ UNCHANGED <<chatVars, lastCall, ingestVars>>

\* reader.read() resolves with the next k tokens of the body
ReadChunk(n, k) ==
    /\ Live(n) /\ conn[n].pc = "reading" /\ ~conn[n].aborted
    /\ k \in 1..Len(conn[n].rest)
    /\ LET r == ProcessChunk(conn[n].buffer, SubSeq(conn[n].rest, 1, k), conn[n].seen)
       IN  /\ conn' = [conn EXCEPT
                  ![n].rest = SubSeq(conn[n].rest, k + 1, Len(conn[n].rest)),
                  ![n].buffer = r.buffer,
                  ![n].seen = conn[n].seen + r.nlines,
                  ![n].chunks = conn[n].chunks + 1]
           /\ log' = log \o EventCallbacks(n, r.calls)
    /\ UNCHANGED <<retryCount, abortController, timers, nCalls>>
    /\ UNCHANGED <<chatVars, lastCall, ingestVars>>

\* reader.read() resolves with done: the loop breaks and onClose fires
ReadDone(n) ==
    /\ Live(n) /\ conn[n].pc = "reading" /\ ~conn[n].aborted
    /\ conn[n].rest = <<>>
    /\ conn' = [conn EXCEPT ![n].pc = "ended"]
    /\ log' = Append(log, Callback(n, "close", <<>>))
    /\ UNCHANGED <<retryCount, abortController, timers, nCalls>>
    /\ UNCHANGED <<chatVars, lastCall, ingestVars>>

\* reader.read() rejects with a transport error other than an abort
ReadFail(n) ==
    /\ Live(n) /\ conn[n].pc = "reading" /\ ~conn[n].aborted
    /\ Catch(n, ReadFailMessage)

\* mutant: an AbortError is handled like any other error
AbortErrorRetries(n) ==
    /\ Live(n) /\ conn[n].aborted
    /\ Catch(n, "AbortError")

\* the pending fetch or read of an aborted request rejects with AbortError
AbortError(n) ==
    /\ Live(n) /\ conn[n].aborted
    /\ conn' = [conn EXCEPT ![n].pc = "ended"]
    /\ log' = Append(log, Callback(n, "close", <<>>))
    /\ UNCHANGED <<retryCount, abortController, timers, nCalls>>
    /\ UNCHANGED <<chatVars, lastCall, ingestVars>>

\* a retry timer fires: this.connect(query, callbacks)
TimerFire(t) ==
    /\ t \in timers
    /\ connect(t.query, t.cb, FALSE, t.by)
    /\ timers' = timers \ {t}
    /\ UNCHANGED <<log, nCalls>>
    /\ UNCHANGED <<chatVars, lastCall, ingestVars>>

Next ==
    \/ \E q \in Queries : Connect(q)
    \/ Disconnect
    \/ \E n \in 1..Len(conn), m \in FailMessages : FetchFail(n, m)
    \/ \E n \in 1..Len(conn), w \in LifecycleWires : FetchOk(n, w)
    \/ \E n \in 1..Len(conn), k \in {3, 6} : ReadChunk(n, k)
    \/ \E n \in 1..Len(conn) : ReadDone(n)
    \/ \E n \in 1..Len(conn) : ReadFail(n)
    \/ \E n \in 1..Len(conn) : AbortError(n)
    \/ \E t \in timers : TimerFire(t)

Spec == Init /\ [][Next]_vars

\* the parser specification: one request whose body is any of ParseWires,
\* delivered in chunks of any sizes
NextParse ==
    \/ conn = <<>> /\ \E q \in Queries : Connect(q)
    \/ \E n \in 1..Len(conn) : conn[n].pc = "fetching" /\ \E w \in ParseWires : FetchOk(n, w)
    \/ \E n \in 1..Len(conn), k \in 1..(3 * MaxLines) : ReadChunk(n, k)
    \/ \E n \in 1..Len(conn) : ReadDone(n)

SpecParse == Init /\ [][NextParse]_vars

(***************************************************************************)
(* The store operations as called by the application                       *)
(***************************************************************************)
SetStore(st) ==
    /\ conversations' = st.conversations
    /\ currentConversationId' = st.currentConversationId

CreateConversation(title) ==
    /\ nextId <= MaxId
    /\ SetStore(createConversation(Store, title, nextId, now))
    /\ nextId' = nextId + 1
    /\ UNCHANGED <<isLoading, error, now, home, ui>>
    /\ UNCHANGED <<sseVars, lastCall, ingestVars>>

DeleteConversation(id) ==
    /\ SetStore(deleteConversation(Store, id))
    /\ UNCHANGED <<isLoading, error, nextId, now, home, ui>>
    /\ UNCHANGED <<sseVars, lastCall, ingestVars>>

ClearConversations ==
    /\ SetStore(clearConversations(Store))
    /\ UNCHANGED <<isLoading, error, nextId, now, home, ui>>
    /\ UNCHANGED <<sseVars, lastCall, ingestVars>>

SetCurrentConversation(id) ==
    /\ SetStore(setCurrentConversation(Store, id))
    /\ UNCHANGED <<isLoading, error, nextId, now, home, ui>>
    /\ UNCHANGED <<sseVars, lastCall, ingestVars>>

AddMessage(conversationId, message) ==
    /\ nextId <= MaxId
    /\ SetStore(addMessage(Store, conversationId, message, nextId, now))
    /\ nextId' = nextId + 1
    /\ UNCHANGED <<isLoading, error, now, home, ui>>
    /\ UNCHANGED <<sseVars, lastCall, ingestVars>>

UpdateMessage(conversationId, messageId, updates) ==
    /\ SetStore(updateMessage(Store, conversationId, messageId, updates, now))
    /\ UNCHANGED <<isLoading, error, nextId, now, home, ui>>
    /\ UNCHANGED <<sseVars, lastCall, ingestVars>>

\* time passes
Tick ==
    /\ now < MaxTime
    /\ now' = now + 1
    /\ UNCHANGED <<conversations, currentConversationId, isLoading, error, nextId, home, ui>>
    /\ UNCHANGED <<sseVars, lastCall, ingestVars>>

NextChat ==
    \/ \E title \in Titles : CreateConversation(title)
    \/ \E id \in DeleteInputs : DeleteConversation(id)
    \/ ClearConversations
    \/ \E id \in IdInputs : SetCurrentConversation(id)
    \/ \E id \in ConvIdInputs, m \in MessageInputs : AddMessage(id, m)
    \/ \E id \in ConvIdInputs : \E mid \in MsgIdInputs(id), u \in UpdateInputs :
          UpdateMessage(id, mid, u)
    \/ Tick

SpecChat == Init /\ [][NextChat]_vars

(***************************************************************************)
(* The same operations, each call leaving its name and arguments in        *)
(* lastCall                                                                *)
(***************************************************************************)
StoreCall(st, used, call) ==
    /\ SetStore(st)
    /\ nextId' = nextId + used
    /\ lastCall' = call
    /\ UNCHANGED <<isLoading, error, now, home, ui>>
    /\ UNCHANGED <<sseVars, ingestVars>>

CallCreateConversation(title) ==
    /\ nextId <= MaxId
    /\ StoreCall(createConversation(Store, title, nextId, now), 1,
                 [op |-> "createConversation", result |-> nextId])

CallDeleteConversation(id) ==
    StoreCall(deleteConversation(Store, id), 0,
              [op |-> "deleteConversation", id |-> id,
               wasCurrent |-> (id \in ConvIds(Store) /\ currentConversationId = id)])

CallClearConversations ==
    StoreCall(clearConversations(Store), 0, [op |-> "clearConversations"])

CallSetCurrentConversation(id) ==
    StoreCall(setCurrentConversation(Store, id), 0, [op |-> "setCurrentConversation", id |-> id])

CallAddMessage(conversationId, message) ==
    /\ nextId <= MaxId
    /\ StoreCall(addMessage(Store, conversationId, message, nextId, now), 1,
                 [op |-> "addMessage", conversationId |-> conversationId,
                  role |-> message.role])

CallUpdateMessage(conversationId, messageId, updates) ==
    StoreCall(updateMessage(Store, conversationId, messageId, updates, now), 0,
              [op |-> "updateMessage", conversationId |-> conversationId,
               messageId |-> messageId])

NextStore ==
    \/ \E title \in Titles : CallCreateConversation(title)
    \/ \E id \in DeleteInputs : CallDeleteConversation(id)
    \/ CallClearConversations
    \/ \E id \in IdInputs : CallSetCurrentConversation(id)
    \/ \E id \in IdInputs, m \in StoreMessages : CallAddMessage(id, m)
    \/ \E id \in ConvIdInputs : \E mid \in MsgIdInputs(id), u \in StoreUpdates :
          CallUpdateMessage(id, mid, u)

SpecStore == Init /\ [][NextStore]_vars

\* the store as the components drive it when no conversation is selected by
\* hand: every operation but setCurrentConversation
NextSelection ==
    \/ \E title \in Titles : CallCreateConversation(title)
    \/ \E id \in DeleteInputs : CallDeleteConversation(id)
    \/ CallClearConversations
    \/ \E id \in IdInputs, m \in StoreMessages : CallAddMessage(id, m)
    \/ \E id \in ConvIdInputs : \E mid \in MsgIdInputs(id), u \in StoreUpdates :
          CallUpdateMessage(id, mid, u)

SpecSelection == Init /\ [][NextSelection]_vars

\* one conversation with the default title, and messages of every length
NextTitle ==
    \/ conversations = <<>> /\ CallCreateConversation(DefaultTitle)
    \/ \E id \in ConvIds(Store), m \in TitleMessages : CallAddMessage(id, m)
    \/ Tick

SpecTitle == Init /\ [][NextTitle]_vars

(***************************************************************************)
(* handleSendMessage of Home and of UnifiedInterface.  The part up to the  *)
(* first await is one step; each callback of the stream and each outcome   *)
(* of the query call is one step.                                          *)
(***************************************************************************)
Question == <<"Q", "?">>
SendTexts == {Hello, Question}
Deltas == {Hi, There}
Answer == <<"4", "2">>
NoInformation == <<"I don't have enough information to answer this question.">>
SorryAnswer == <<"Sorry, I encountered an error while processing your request.">>
GreetingAnswer == <<"Hello! Welcome to RAG Intelligence!">>
NoDocumentsAnswer == <<"I'm ready to help you with your documents!">>
FallbackAnswer == <<"I'm ready to help! However, I need some documents first.">>
QueryFailures == {"Network error"}
DoneMetadata == {"meta", "undefined"}

\* metadata?.retrieval_debug
RetrievalDebugOf(metadata) == IF metadata = "undefined" THEN "undefined" ELSE "debug"

\* lowerQuery.includes('hello') || lowerQuery.includes('hi')
IsGreeting(text) == text = Hello

\* the store after the synchronous part of handleSendMessage, the ids it
\* used, and the number of ids it generated
Prepared(text) ==
    LET fresh == currentConversationId = 0
        conversationId == IF fresh THEN nextId ELSE currentConversationId
        k == IF fresh THEN nextId + 1 ELSE nextId
        st0 == IF fresh THEN createConversation(Store, DefaultTitle, nextId, now) ELSE Store
        st1 == addMessage(st0, conversationId, [role |-> "user", content |-> text], k, now)
        st2 == addMessage(st1, conversationId,
                   [role |-> "assistant", content |-> <<>>, isStreaming |-> TRUE], k + 2, now)
    IN  [store |-> st2, conversationId |-> conversationId,
         assistantMessageId |-> k + 1, placeholderId |-> k + 2, nextId |-> k + 3]

\* Home.handleSendMessage up to its await
HomeSend(text, enableStreaming) ==
    LET p == Prepared(text) IN
    /\ ~isLoading /\ ~home.isStreaming
    /\ home.turns < MaxTurns
    /\ SetStore(p.store)
    /\ nextId' = p.nextId
    /\ isLoading' = TRUE
    /\ error' = "null"
    /\ home' = [pc |-> IF enableStreaming THEN "streaming" ELSE "querying",
                isStreaming |-> TRUE,
                currentStreamingMessage |-> <<>>,
                currentCitations |-> <<>>,
                currentMetadata |-> "null",
                conversationId |-> p.conversationId,
                assistantMessageId |-> p.assistantMessageId,
                capturedMessage |-> home.currentStreamingMessage,
                capturedCitations |-> home.currentCitations,
                placeholderId |-> p.placeholderId,
                delivered |-> <<>>,
                turns |-> home.turns + 1,
                outcome |-> "none"]
    /\ UNCHANGED <<now, ui>>
    /\ UNCHANGED <<sseVars, lastCall, ingestVars>>

Streaming == home.pc = "streaming" /\ home.outcome = "none"

\* the onMessage callback Home passes to connect
HomeOnMessage(data) ==
    /\ Streaming
    /\ Len(home.delivered) < MaxDeltas
    /\ home' = [home EXCEPT !.currentStreamingMessage = @ \o data,
                            !.delivered = Append(@, data)]
    /\ UNCHANGED <<conversations, currentConversationId, isLoading, error, nextId, now, ui>>
    /\ UNCHANGED <<sseVars, lastCall, ingestVars>>

\* the onCitations callback
HomeOnCitations(citations) ==
    /\ Streaming
    /\ home' = [home EXCEPT !.currentCitations = citations]
    /\ UNCHANGED <<conversations, currentConversationId, isLoading, error, nextId, now, ui>>
    /\ UNCHANGED <<sseVars, lastCall, ingestVars>>

\* the onMetadata callback
HomeOnMetadata(metadata) ==
    /\ Streaming
    /\ home' = [home EXCEPT !.currentMetadata = metadata]
    /\ UNCHANGED <<conversations, currentConversationId, isLoading, error, nextId, now, ui>>
    /\ UNCHANGED <<sseVars, lastCall, ingestVars>>

\* the onError callback
HomeOnError(message) ==
    /\ Streaming
    /\ error' = message
    /\ UNCHANGED <<conversations, currentConversationId, isLoading, nextId, now, home, ui>>
    /\ UNCHANGED <<sseVars, lastCall, ingestVars>>

\* the onDone callback
HomeOnDone(metadata) ==
    /\ Streaming
    /\ SetStore(updateMessage(Store, home.conversationId, home.assistantMessageId,
                    [content |-> home.capturedMessage,
                     citations |-> home.capturedCitations,
                     retrievalDebug |-> RetrievalDebugOf(metadata),
                     isStreaming |-> FALSE], now))
    /\ isLoading' = FALSE
    /\ home' = [home EXCEPT !.currentMetadata = metadata, !.isStreaming = FALSE,
                            !.outcome = "done"]
    /\ UNCHANGED <<error, nextId, now, ui>>
    /\ UNCHANGED <<sseVars, lastCall, ingestVars>>

\* the promise returned by connect resolves
HomeConnectReturns ==
    /\ home.pc = "streaming"
    /\ home' = [home EXCEPT !.pc = "idle"]
    /\ UNCHANGED <<conversations, currentConversationId, isLoading, error, nextId, now, ui>>
    /\ UNCHANGED <<sseVars, lastCall, ingestVars>>

\* apiClient.query resolves (streaming disabled)
HomeQueryOk(answer) ==
    /\ home.pc = "querying"
    /\ SetStore(updateMessage(Store, home.conversationId, home.assistantMessageId,
                    [content |-> answer, citations |-> <<>>, retrievalDebug |-> "debug",
                     isStreaming |-> FALSE], now))
    /\ isLoading' = FALSE
    /\ home' = [home EXCEPT !.pc = "idle", !.outcome = "answered"]
    /\ UNCHANGED <<error, nextId, now, ui>>
    /\ UNCHANGED <<sseVars, lastCall, ingestVars>>

\* apiClient.query rejects (streaming disabled): the catch block
HomeQueryFail(message) ==
    /\ home.pc = "querying"
    /\ error' = message
    /\ SetStore(updateMessage(Store, home.conversationId, home.assistantMessageId,
                    [content |-> SorryAnswer, error |-> message, isStreaming |-> FALSE], now))
    /\ isLoading' = FALSE
    /\ home' = [home EXCEPT !.pc = "idle", !.isStreaming = FALSE, !.outcome = message]
    /\ UNCHANGED <<nextId, now, ui>>
    /\ UNCHANGED <<sseVars, lastCall, ingestVars>>

\* the update UnifiedInterface makes with its final answer
UIFinalUpdate(st, finalAnswer) ==
    updateMessage(st, ui.conversationId, ui.assistantMessageId,
        [content |-> finalAnswer, citations |-> <<>>, retrievalDebug |-> "null",
         isStreaming |-> FALSE], now)

\* UnifiedInterface.handleSendMessage up to its await; a greeting is
\* answered without any await, so the whole handler is this one step
UISend(text) ==
    LET p == Prepared(text) IN
    /\ ~ui.isLoading
    /\ ui.turns < MaxTurns
    /\ nextId' = p.nextId
    /\ IF IsGreeting(text)
       THEN /\ SetStore(updateMessage(p.store, p.conversationId, p.assistantMessageId,
                           [content |-> GreetingAnswer, citations |-> <<>>,
                            retrievalDebug |-> "null", isStreaming |-> FALSE], now))
            /\ ui' = [pc |-> "idle", isLoading |-> FALSE,
                      conversationId |-> p.conversationId,
                      assistantMessageId |-> p.assistantMessageId,
                      placeholderId |-> p.placeholderId,
                      turns |-> ui.turns + 1, outcome |-> "answered"]
       ELSE /\ SetStore(p.store)
            /\ ui' = [pc |-> "querying", isLoading |-> TRUE,
                      conversationId |-> p.conversationId,
                      assistantMessageId |-> p.assistantMessageId,
                      placeholderId |-> p.placeholderId,
                      turns |-> ui.turns + 1, outcome |-> "none"]
    /\ UNCHANGED <<isLoading, error, now, home>>
    /\ UNCHANGED <<sseVars, lastCall, ingestVars>>

\* apiClient.query resolves
UIQueryOk(answer) ==
    /\ ui.pc = "querying"
    /\ SetStore(UIFinalUpdate(Store,
                    IF answer = NoInformation THEN NoDocumentsAnswer ELSE answer))
    /\ ui' = [ui EXCEPT !.pc = "idle", !.isLoading = FALSE, !.outcome = "answered"]
    /\ UNCHANGED <<isLoading, error, nextId, now, home>>
    /\ UNCHANGED <<sseVars, lastCall, ingestVars>>

\* apiClient.query rejects: the inner catch block supplies a fallback answer
UIQueryFail(message) ==
    /\ ui.pc = "querying"
    /\ SetStore(UIFinalUpdate(Store, FallbackAnswer))
    /\ ui' = [ui EXCEPT !.pc = "idle", !.isLoading = FALSE, !.outcome = message]
    /\ UNCHANGED <<isLoading, error, nextId, now, home>>
    /\ UNCHANGED <<sseVars, lastCall, ingestVars>>

\* the Home page with the user creating and deleting conversations meanwhile
NextHome ==
    \/ \E text \in SendTexts, enableStreaming \in BOOLEAN : HomeSend(text, enableStreaming)
    \/ \E d \in Deltas : HomeOnMessage(d)
    \/ HomeOnCitations(<<"cite">>)
    \/ HomeOnMetadata("meta")
    \/ HomeOnError("stream error")
    \/ \E metadata \in DoneMetadata : HomeOnDone(metadata)
    \/ HomeConnectReturns
    \/ \E answer \in {Answer} : HomeQueryOk(answer)
    \/ \E message \in QueryFailures : HomeQueryFail(message)
    \/ \E title \in Titles : CreateConversation(title)
    \/ \E id \in DeleteInputs : DeleteConversation(id)
    \/ Tick

SpecHome == Init /\ [][NextHome]_vars

\* the Home page streaming an answer, with conversations deleted only while
\* the stream is in flight
NextInFlight ==
    \/ \E text \in SendTexts : HomeSend(text, TRUE)
    \/ HomeOnCitations(<<"cite">>)
    \/ HomeOnError("stream error")
    \/ \E metadata \in DoneMetadata : HomeOnDone(metadata)
    \/ HomeConnectReturns
    \/ \E title \in Titles : CreateConversation(title)
    \/ Streaming /\ \E id \in DeleteInputs : DeleteConversation(id)
    \/ Tick

SpecInFlight == Init /\ [][NextInFlight]_vars

\* the unified interface, likewise
NextUI ==
    \/ \E text \in SendTexts : UISend(text)
    \/ \E answer \in {Answer, NoInformation} : UIQueryOk(answer)
    \/ \E message \in QueryFailures : UIQueryFail(message)
    \/ \E title \in Titles : CreateConversation(title)
    \/ \E id \in DeleteInputs : DeleteConversation(id)
    \/ Tick

SpecUI == Init /\ [][NextUI]_vars
(***************************************************************************)
(* useIngest store (web/src/lib/storage.ts, third module).  An item id is  *)
(* the value of the random part of the generated id.  uploadItem runs to   *)
(* its await in the step that calls it; the completion of its backend call *)
(* is a step of its own, and what awaits that completion (Promise.all and  *)
(* the finally of uploadAll) runs in the same step.  retryItem takes two   *)
(* steps, its reset and its call of uploadItem, with nothing in between.   *)
(***************************************************************************)
FileName == "doc.txt"
UrlName == "http://u"
IngestFailures == {"Ingest failed: 500"}

NewItem(id, name, type) ==
    [id |-> id, name |-> name, type |-> type, status |-> "pending", progress |-> 0,
     result |-> "undefined", error |-> "undefined"]

ItemIds(its) == {its[i].id : i \in 1..Len(its)}

\* items.find(item => item.id === id); a record with id 0 stands for undefined
NoItem == [id |-> 0, name |-> "", type |-> "none", status |-> "absent", progress |-> 0,
           result |-> "undefined", error |-> "undefined"]

FindItem(its, id) ==
    IF id \in ItemIds(its)
    THEN its[CHOOSE i \in 1..Len(its) :
                /\ its[i].id = id
                /\ \A j \in 1..(i-1) : its[j].id # id]
    ELSE NoItem

\* useIngest.addFiles / addUrls, with the generated ids
addItems(its, n, type, firstId) ==
    its \o [i \in 1..n |->
                NewItem(firstId + i - 1, IF type = "file" THEN FileName ELSE UrlName, type)]

\* useIngest.removeItem(id)
removeItem(its, id) == SelectSeq(its, LAMBDA item : item.id # id)

\* mutant: uploadItem writes back the list it read before its siblings
\* started, so their uploading marks are lost
uploadItemStartStale(its, id) ==
    LET item == FindItem(its, id)
    IN  IF item.status = "absent" \/ item.status # "pending"
        THEN [items |-> its, started |-> FALSE, type |-> "none"]
        ELSE [items |-> Map(its, LAMBDA it :
                            IF it.id = id
                            THEN [it EXCEPT !.status = "uploading", !.progress = 0]
                            ELSE IF it.status = "uploading"
                                 THEN [it EXCEPT !.status = "pending"]
                                 ELSE it),
              started |-> TRUE,
              type |-> item.type]

\* mutant: uploadItem also starts for an item that is already uploading
uploadItemStartAgain(its, id) ==
    LET item == FindItem(its, id)
    IN  IF item.status = "absent" \/ item.status \notin {"pending", "uploading"}
        THEN [items |-> its, started |-> FALSE, type |-> "none"]
        ELSE [items |-> Map(its, LAMBDA it :
                            IF it.id = id
                            THEN [it EXCEPT !.status = "uploading", !.progress = 0]
                            ELSE it),
              started |-> TRUE,
              type |-> item.type]

\* mutant: uploadItem starts whatever the status of the item
uploadItemStartUnguarded(its, id) ==
    LET item == FindItem(its, id)
    IN  IF item.status = "absent"
        THEN [items |-> its, started |-> FALSE, type |-> "none"]
        ELSE [items |-> Map(its, LAMBDA it :
                            IF it.id = id
                            THEN [it EXCEPT !.status = "uploading", !.progress = 0]
                            ELSE it),
              started |-> TRUE,
              type |-> item.type]

\* useIngest.uploadItem(id) up to its await: the items after it, and
\* whether a backend call was started
uploadItemStart(its, id) ==
    LET item == FindItem(its, id)
    IN  IF item.status = "absent" \/ item.status # "pending"
        THEN [items |-> its, started |-> FALSE, type |-> "none"]
        ELSE [items |-> Map(its, LAMBDA it :
                            IF it.id = id
                            THEN [it EXCEPT !.status = "uploading", !.progress = 0]
                            ELSE it),
              started |-> TRUE,
              type |-> item.type]

\* mutant: the completion writes to every item that is uploading, not to
\* the item of its own id
uploadItemSettlesAnyUploading(its, id, outcome) ==
    [items |-> Map(its, LAMBDA it :
                   IF it.status = "uploading"
                   THEN IF outcome = "resolved"
                        THEN [it EXCEPT !.status = "success", !.progress = 100,
                                        !.result = "result"]
                        ELSE [it EXCEPT !.status = "error", !.progress = 0,
                                        !.error = outcome]
                   ELSE it),
     rejects |-> FALSE]

\* mutant: the catch block writes the error to the item and throws it again
uploadItemSettlesRethrows(its, id, outcome) ==
    IF outcome = "resolved"
    THEN [items |-> Map(its, LAMBDA it :
                        IF it.id = id
                        THEN [it EXCEPT !.status = "success", !.progress = 100,
                                        !.result = "result"]
                        ELSE it),
          rejects |-> FALSE]
    ELSE [items |-> Map(its, LAMBDA it :
                        IF it.id = id
                        THEN [it EXCEPT !.status = "error", !.progress = 0,
                                        !.error = outcome]
                        ELSE it),
          rejects |-> TRUE]

\* mutant: a rejected backend call is not caught per item: the promise of
\* uploadItem rejects and the item is left as it is
uploadItemSettlesUncaught(its, id, outcome) ==
    IF outcome = "resolved"
    THEN [items |-> Map(its, LAMBDA it :
                        IF it.id = id
                        THEN [it EXCEPT !.status = "success", !.progress = 100,
                                        !.result = "result"]
                        ELSE it),
          rejects |-> FALSE]
    ELSE [items |-> its, rejects |-> TRUE]

\* useIngest.uploadItem(id) from the completion of its backend call: the
\* items after it, and whether the promise of uploadItem rejects.  outcome
\* is "resolved" or the message of the Error the backend call rejected with
uploadItemSettles(its, id, outcome) ==
    IF outcome = "resolved"
    THEN [items |-> Map(its, LAMBDA it :
                        IF it.id = id
                        THEN [it EXCEPT !.status = "success", !.progress = 100,
                                        !.result = "result"]
                        ELSE it),
          rejects |-> FALSE]
    ELSE [items |-> Map(its, LAMBDA it :
                        IF it.id = id
                        THEN [it EXCEPT !.status = "error", !.progress = 0,
                                        !.error = outcome]
                        ELSE it),
          rejects |-> FALSE]

\* mutant: retryItem writes uploading at once, without the pending state
resetToUploading(its, id) ==
    Map(its, LAMBDA it :
        IF it.id = id
        THEN [it EXCEPT !.status = "uploading", !.progress = 0, !.error = "undefined"]
        ELSE it)

\* mutant: the reset of retryItem keeps the error text of the failed upload
resetToPendingKeepsError(its, id) ==
    Map(its, LAMBDA it :
        IF it.id = id
        THEN [it EXCEPT !.status = "pending", !.progress = 0]
        ELSE it)

\* the reset of useIngest.retryItem(id)
resetToPending(its, id) ==
    Map(its, LAMBDA it :
        IF it.id = id
        THEN [it EXCEPT !.status = "pending", !.progress = 0, !.error = "undefined"]
        ELSE it)

\* pendingItems.map(item => get().uploadItem(item.id)): the calls are made
\* one after the other, each seeing the writes of the calls before it
RECURSIVE StartAll(_, _, _)
StartAll(acc, ids, b) ==
    IF ids = <<>> THEN acc
    ELSE LET r == uploadItemStart(acc.items, Head(ids))
         IN  StartAll([items |-> r.items,
                       started |-> IF r.started
                                   THEN acc.started \cup
                                           {[id |-> Head(ids), type |-> r.type, batch |-> b]}
                                   ELSE acc.started],
                      Tail(ids), b)

PendingIds(its) ==
    LET pendingItems == SelectSeq(its, LAMBDA item : item.status = "pending")
    IN  [i \in 1..Len(pendingItems) |-> pendingItems[i].id]

\* items.reduce((sum, item) => sum + item.progress, 0)
RECURSIVE SumProgress(_)
SumProgress(its) ==
    IF its = <<>> THEN 0 ELSE Head(its).progress + SumProgress(Tail(its))

\* Math.round(total / n) for total >= 0 and n > 0: the nearest integer, a
\* half rounded up
RoundedQuotient(total, n) == (2 * total + n) \div (2 * n)

\* mutant: the sum of the progress fields is returned undivided
getTotalProgressSum(its) ==
    IF Len(its) = 0 THEN 0 ELSE SumProgress(its)

\* useIngest.getTotalProgress()
getTotalProgress(its) ==
    IF Len(its) = 0 THEN 0 ELSE RoundedQuotient(SumProgress(its), Len(its))

IngestFrame == UNCHANGED <<sseVars, chatVars, lastCall>>

AddItems(n, type) ==
    /\ retrying = 0
    /\ nextItemId + n - 1 <= MaxItems
    /\ items' = addItems(items, n, type, nextItemId)
    /\ nextItemId' = nextItemId + n
    /\ UNCHANGED <<isUploading, uploads, batches, retrying>>
    /\ IngestFrame

AddFiles(n) == AddItems(n, "file")

AddUrls(n) == AddItems(n, "url")

RemoveItem(id) ==
    /\ retrying = 0
    /\ items' = removeItem(items, id)
    /\ UNCHANGED <<isUploading, nextItemId, uploads, batches, retrying>>
    /\ IngestFrame

ClearItems ==
    /\ retrying = 0
    /\ items' = <<>>
    /\ UNCHANGED <<isUploading, nextItemId, uploads, batches, retrying>>
    /\ IngestFrame

\* useIngest.uploadAll() up to its await; with nothing pending it returns
\* at once
UploadAll ==
    LET ids == PendingIds(items)
        b == Len(batches) + 1
        r == StartAll([items |-> items, started |-> {}], ids, b)
        open == {u.id : u \in r.started}
    IN  /\ retrying = 0
        /\ IF ids = <<>>
           THEN UNCHANGED ingestVars
           ELSE /\ Len(batches) < MaxBatches
                /\ isUploading' = (open # {})
                /\ items' = r.items
                /\ uploads' = uploads \cup r.started
                /\ batches' = Append(batches, [size |-> Len(ids), open |-> open,
                                               closed |-> (open = {})])
                /\ UNCHANGED <<nextItemId, retrying>>
        /\ IngestFrame

\* useIngest.uploadItem(id) called on its own, up to its await
UploadItemStep(id) ==
    LET r == uploadItemStart(items, id)
    IN  /\ retrying = 0
        /\ items' = r.items
        /\ uploads' = IF r.started
                      THEN uploads \cup {[id |-> id, type |-> r.type, batch |-> 0]}
                      ELSE uploads
        /\ UNCHANGED <<isUploading, nextItemId, batches, retrying>>

UploadItem(id) == UploadItemStep(id) /\ IngestFrame

\* mutant: retryItem resets and uploads the item whatever its status
RetryItemUnguarded(id) ==
    /\ retrying = 0
    /\ IF FindItem(items, id).status = "absent"
       THEN UNCHANGED ingestVars
       ELSE /\ items' = resetToPending(items, id)
            /\ retrying' = id
            /\ UNCHANGED <<isUploading, nextItemId, uploads, batches>>

\* useIngest.retryItem(id) up to its call of uploadItem
RetryItemStep(id) ==
    LET item == FindItem(items, id)
    IN  /\ retrying = 0
        /\ IF item.status = "absent" \/ item.status # "error"
           THEN UNCHANGED ingestVars
           ELSE /\ items' = resetToPending(items, id)
                /\ retrying' = id
                /\ UNCHANGED <<isUploading, nextItemId, uploads, batches>>

RetryItem(id) == RetryItemStep(id) /\ IngestFrame

\* useIngest.retryItem(id): its call of uploadItem, up to the await
RetryUploads ==
    LET r == uploadItemStart(items, retrying)
    IN  /\ retrying # 0
        /\ items' = r.items
        /\ uploads' = IF r.started
                      THEN uploads \cup {[id |-> retrying, type |-> r.type, batch |-> 0]}
                      ELSE uploads
        /\ retrying' = 0
        /\ UNCHANGED <<isUploading, nextItemId, batches>>
        /\ IngestFrame

\* how the backend call of an upload can end: the simulated file upload is
\* a timer and always resolves; ingestUrl resolves or rejects with an Error
Outcomes(u) == IF u.type = "url" THEN {"resolved"} \cup IngestFailures ELSE {"resolved"}

\* the backend call of upload u ends; uploadItem finishes, and with it the
\* uploadAll that was waiting for it: Promise.all resolves when its last
\* promise resolves and rejects when the first one rejects, and the finally
\* of uploadAll then clears isUploading
UploadSettlesStep(u, outcome) ==
    LET r == uploadItemSettles(items, u.id, outcome)
        b == u.batch
        open == IF b = 0 THEN {} ELSE batches[b].open \ {u.id}
        closes == b # 0 /\ ~batches[b].closed /\ (open = {} \/ r.rejects)
    IN  /\ retrying = 0
        /\ u \in uploads
        /\ outcome \in Outcomes(u)
        /\ items' = r.items
        /\ uploads' = uploads \ {u}
        /\ batches' = IF b = 0 THEN batches
                      ELSE [batches EXCEPT ![b].open = open,
                                           ![b].closed = batches[b].closed \/ closes]
        /\ isUploading' = IF closes THEN FALSE ELSE isUploading
        /\ UNCHANGED <<nextItemId, retrying>>

UploadSettles(u, outcome) == UploadSettlesStep(u, outcome) /\ IngestFrame

ItemIdInputs == 1..(nextItemId - 1)

NextIngest ==
    \/ \E n \in 1..MaxItems : AddFiles(n)
    \/ \E n \in 1..MaxItems : AddUrls(n)
    \/ \E id \in ItemIdInputs : RemoveItem(id)
    \/ ClearItems
    \/ UploadAll
    \/ \E id \in ItemIdInputs : UploadItem(id)
    \/ \E id \in ItemIdInputs : RetryItem(id)
    \/ RetryUploads
    \/ \E u \in uploads, outcome \in {"resolved"} \cup IngestFailures : UploadSettles(u, outcome)

SpecIngest == Init /\ [][NextIngest]_vars

\* the queue with removals while uploads are in flight; lastCall records
\* the last completion, whether its item was still in the queue, and
\* whether the promise of uploadItem rejected
CallUploadSettles(u, outcome) ==
    /\ UploadSettlesStep(u, outcome)
    /\ lastCall' = [op |-> "uploadSettles", present |-> (u.id \in ItemIds(items)),
                    rejects |-> uploadItemSettles(items, u.id, outcome).rejects]
    /\ UNCHANGED <<sseVars, chatVars>>

NextRemove ==
    \/ \E n \in 1..MaxItems : AddFiles(n)
    \/ \E n \in 1..MaxItems : AddUrls(n)
    \/ \E id \in ItemIdInputs : RemoveItem(id)
    \/ ClearItems
    \/ UploadAll
    \/ \E id \in ItemIdInputs : RetryItem(id)
    \/ RetryUploads
    \/ \E u \in uploads, outcome \in {"resolved"} \cup IngestFailures :
            CallUploadSettles(u, outcome)

SpecRemove == Init /\ [][NextRemove]_vars

\* uploadItem and retryItem called with any id on any item; lastCall
\* records the operation and whether its guard made it return at once
CallUploadItem(id) ==
    /\ UploadItemStep(id)
    /\ lastCall' = [op |-> "uploadItem", noop |-> (FindItem(items, id).status # "pending")]
    /\ UNCHANGED <<sseVars, chatVars>>

CallRetryItem(id) ==
    /\ RetryItemStep(id)
    /\ lastCall' = [op |-> "retryItem", noop |-> (FindItem(items, id).status # "error")]
    /\ UNCHANGED <<sseVars, chatVars>>

NextGuard ==
    \/ \E n \in 1..MaxItems : AddUrls(n)
    \/ \E id \in ItemIdInputs : RemoveItem(id)
    \/ UploadAll
    \/ \E id \in ItemIdInputs : CallUploadItem(id)
    \/ \E id \in ItemIdInputs : CallRetryItem(id)
    \/ RetryUploads
    \/ \E u \in uploads, outcome \in {"resolved"} \cup IngestFailures : UploadSettles(u, outcome)

SpecGuard == Init /\ [][NextGuard]_vars

\* getTotalProgress as a function of the queue: queues of items with any
\* progress of the range 0..100 of IngestItem.progress
FullProgress == 100

\* the queues of up to MaxItems uploading items that are all at the same
\* progress
ConstantQueues ==
    {[i \in 1..n |-> [NewItem(i, FileName, "file") EXCEPT !.status = "uploading",
                                                          !.progress = P]] :
        n \in 0..MaxItems, P \in 0..FullProgress}

SetItems(queue) ==
    /\ items' = queue
    /\ nextItemId' = Len(queue) + 1
    /\ lastCall' = NoCall
    /\ UNCHANGED <<isUploading, uploads, batches, retrying>>
    /\ UNCHANGED <<sseVars, chatVars>>

CallGetTotalProgress ==
    /\ lastCall' = [op |-> "getTotalProgress", result |-> getTotalProgress(items)]
    /\ UNCHANGED <<sseVars, chatVars, ingestVars>>

NextProgress ==
    \/ \E queue \in ConstantQueues : SetItems(queue)
    \/ CallGetTotalProgress

SpecProgress == Init /\ [][NextProgress]_vars

(***************************************************************************)
(* Reading the history                                                     *)
(***************************************************************************)
Conns == 1..Len(conn)

\* the callback invocations made by connect invocation n, in order
CallsOfConn(n) == SelectSeq(log, LAMBDA e : e.conn = n)

\* the callback invocations received by the callbacks of call c, in order
CallsOfCall(c) == SelectSeq(log, LAMBDA e : e.cb = c)

\* the event callbacks (those caused by a line of the body) of invocation n
EventsOfConn(n) == SelectSeq(log, LAMBDA e : e.conn = n /\ e.at > 0)

Count(s, Test(_)) == Len(SelectSeq(s, Test))

KindData(s) == [i \in 1..Len(s) |-> [kind |-> s[i].kind, data |-> s[i].data]]

\* the newline-terminated lines of a body
WireLines(wire) ==
    LET pieces == SplitNL(wire) IN SubSeq(pieces, 1, Len(pieces) - 1)

\* the connect invocations made on behalf of call c
Attempts(c) == {n \in Conns : conn[n].cb = c}

(***************************************************************************)
(* C1: when every attempt of a call fails at connection level, then after  *)
(* maxRetries (3) failures the callbacks of the call have received exactly *)
(* one error followed by exactly one close, and no retry is pending.       *)
(***************************************************************************)
C1_ExhaustedRetriesSurfaceOneError ==
    \A c \in 1..nCalls :
        ( /\ \A n \in Attempts(c) : conn[n].failed = "fetching"
          /\ Cardinality(Attempts(c)) >= maxRetries )
        => LET got == CallsOfCall(c) IN
           /\ Count(got, LAMBDA e : e.kind = "error") = 1
           /\ Count(got, LAMBDA e : e.kind = "close") = 1
           /\ got[Len(got)].kind = "close"
           /\ \A t \in timers : t.cb # c

(***************************************************************************)
(* C4: at most one connect invocation is reading a body and dispatching    *)
(* callbacks, and every request that has not been aborted is the one the   *)
(* client holds the controller of.                                         *)
(***************************************************************************)
C4_AtMostOneActiveReadLoop ==
    /\ Cardinality({n \in Conns : conn[n].pc = "reading" /\ ~conn[n].aborted}) <= 1
    /\ \A n \in Conns :
          (conn[n].pc # "ended" /\ ~conn[n].aborted) => abortController = n

\* a superseded request whose abort is still to be observed, next to the
\* request that superseded it, which is reading
C4_Witness ==
    \E n, m \in Conns :
        /\ n < m
        /\ conn[n].pc = "reading" /\ conn[n].aborted
        /\ conn[m].pc = "reading" /\ ~conn[m].aborted

(***************************************************************************)
(* C5: a request cancelled while it was streaming receives, from the       *)
(* cancellation on, no callback other than one close (exactly one once it  *)
(* has ended), never the error callback, and no retry of it is scheduled   *)
(* or made.                                                                *)
(***************************************************************************)
C5_CancelFiresCloseOnly ==
    \A n \in Conns :
        conn[n].cancelled = "reading" =>
            LET after == SelectSeq(SubSeq(log, conn[n].cancelLog + 1, Len(log)),
                                   LAMBDA e : e.conn = n)
            IN  /\ \A i \in 1..Len(after) : after[i].kind = "close"
                /\ Len(after) = (IF conn[n].pc = "ended" THEN 1 ELSE 0)
                /\ conn[n].failed = "no"
                /\ \A t \in timers : t.by # n
                /\ \A m \in Conns : conn[m].by # n

\* a request cancelled while streaming has closed, and a later
\* caller-initiated connect has opened and delivered an event
C5_Witness ==
    \E n, m \in Conns :
        /\ n < m
        /\ conn[n].cancelled = "reading" /\ conn[n].pc = "ended"
        /\ conn[m].top /\ ~conn[m].aborted
        /\ Len(EventsOfConn(m)) >= 1

(***************************************************************************)
(* C2: when a body has been read to its end, the event callbacks (kind and *)
(* payload) are those the same body yields when it arrives as one chunk.   *)
(***************************************************************************)
OneChunk(wire) == ProcessChunk(<<>>, wire, 0).calls

C2_ChunkBoundaryInvariance ==
    \A n \in Conns :
        (conn[n].pc = "ended" /\ conn[n].failed = "no" /\ ~conn[n].aborted)
        => KindData(EventsOfConn(n)) = KindData(OneChunk(conn[n].wire))

(***************************************************************************)
(* C6: once done has been dispatched on a request, the request makes no    *)
(* message, citations, metadata or error callback any more; and a request  *)
(* whose read loop has ended has fired close exactly once, as its last     *)
(* callback.                                                               *)
(***************************************************************************)
C6_NothingAfterDone ==
    \A n \in Conns :
        LET got == CallsOfConn(n) IN
        /\ \A i, j \in 1..Len(got) :
              (i < j /\ got[i].kind = "done")
              => got[j].kind \notin {"message", "citations", "metadata", "error"}
        /\ (conn[n].pc = "ended" /\ conn[n].failed = "no") =>
              /\ Count(got, LAMBDA e : e.kind = "close") = 1
              /\ got[Len(got)].kind = "close"

(***************************************************************************)
(* C7: in a body that arrived as a single chunk, every event: line that is *)
(* immediately followed by a data: line with a parseable payload caused    *)
(* exactly one callback, of the kind the event: line names and with the    *)
(* parsed payload of that data: line.                                      *)
(***************************************************************************)
C7_DeliveredOnceEach ==
    \A n \in Conns :
        (conn[n].pc = "reading" /\ conn[n].chunks = 1 /\ conn[n].rest = <<>>) =>
            LET lines == WireLines(conn[n].wire)
                got == EventsOfConn(n)
            IN  \A i \in 1..(Len(lines) - 1) :
                    ( /\ StartsWith(lines[i], EventPrefix)
                      /\ StartsWith(lines[i + 1], DataPrefix)
                      /\ JSONParses(SliceAfterPrefix(lines[i + 1])) )
                    => LET mine == SelectSeq(got, LAMBDA e : e.at = i) IN
                       /\ Len(mine) = 1
                       /\ <<mine[1].kind>> = SliceAfterPrefix(lines[i])
                       /\ mine[1].data = <<JSONParse(lines[i + 1][2])>>

(***************************************************************************)
(* C8: the event callbacks of a request fire in the order of the event:    *)
(* lines that caused them, and each is of the kind its event: line names.  *)
(***************************************************************************)
C8_WireOrder ==
    \A n \in Conns :
        LET got == EventsOfConn(n)
            lines == WireLines(conn[n].wire)
        IN  /\ \A i, j \in 1..Len(got) : i < j => got[i].at < got[j].at
            /\ \A i \in 1..Len(got) :
                  /\ got[i].at \in 1..Len(lines)
                  /\ lines[got[i].at] = EventLine(got[i].kind)

\* two events of different kinds delivered from different read chunks
C8_Witness ==
    \E n \in Conns :
        LET got == EventsOfConn(n) IN
        /\ conn[n].chunks >= 2
        /\ Len(got) >= 2
        /\ got[1].kind # got[2].kind
        /\ got[2].at > 2

(***************************************************************************)
(* Reading the store                                                       *)
(***************************************************************************)
StoreNext ==
    [conversations |-> conversations', currentConversationId |-> currentConversationId']

MessagesOf(st, conversationId) == getConversation(st, conversationId).messages

HasMessage(conversationId, messageId) ==
    \E i \in 1..Len(MessagesOf(Store, conversationId)) :
        MessagesOf(Store, conversationId)[i].id = messageId

TheMessage(conversationId, messageId) ==
    LET ms == MessagesOf(Store, conversationId)
    IN  ms[CHOOSE i \in 1..Len(ms) : ms[i].id = messageId]

RECURSIVE Concat(_)
Concat(parts) == IF parts = <<>> THEN <<>> ELSE Head(parts) \o Concat(Tail(parts))

(***************************************************************************)
(* C3: after the stream of a turn has delivered its deltas and then done,  *)
(* the assistant placeholder of that turn holds the concatenation of the   *)
(* deltas and is no longer streaming.                                      *)
(***************************************************************************)
C3_StreamedAnswerStored ==
    ( /\ home.outcome = "done"
      /\ HasMessage(home.conversationId, home.placeholderId) )
    => LET m == TheMessage(home.conversationId, home.placeholderId) IN
       /\ m.content = Concat(home.delivered)
       /\ m.isStreaming = FALSE

(***************************************************************************)
(* C9: after a send whose backend call rejected has finished, the          *)
(* assistant placeholder of that turn carries the failure text in its      *)
(* error field and is no longer streaming.                                 *)
(***************************************************************************)
C9_FailedSendFinalisesPlaceholder ==
    ( /\ ui.pc = "idle"
      /\ ui.outcome \in QueryFailures
      /\ HasMessage(ui.conversationId, ui.placeholderId) )
    => LET m == TheMessage(ui.conversationId, ui.placeholderId) IN
       /\ m.isStreaming = FALSE
       /\ "error" \in DOMAIN m
       /\ m.error = ui.outcome

(***************************************************************************)
(* C10: every addMessage on an existing conversation makes its message     *)
(* list one longer, with the new message last and the earlier messages     *)
(* unchanged; in every step a conversation that stays keeps the ids of its *)
(* messages in order; and a conversation goes only by deleteConversation   *)
(* or clearConversations.                                                  *)
(***************************************************************************)
C10_AppendOnly ==
    [][ /\ \A id \in ConvIds(Store), m \in MessageInputs :
              (nextId' = nextId + 1 /\ AddMessage(id, m)) =>
                  LET before == MessagesOf(Store, id)
                      after == MessagesOf(StoreNext, id)
                  IN  /\ Len(after) = Len(before) + 1
                      /\ SubSeq(after, 1, Len(before)) = before
                      /\ after[Len(after)] = Merge(m, [id |-> nextId, timestamp |-> now])
        /\ \A id \in ConvIds(Store) :
              IF id \in ConvIds(StoreNext)
              THEN LET before == MessagesOf(Store, id)
                       after == MessagesOf(StoreNext, id)
                   IN  /\ Len(after) >= Len(before)
                       /\ \A i \in 1..Len(before) : after[i].id = before[i].id
              ELSE \/ DeleteConversation(id)
                   \/ ClearConversations
      ]_vars

\* a conversation to which a message was added after an earlier one
C10_Witness ==
    \E i \in 1..Len(conversations) :
        /\ Len(conversations[i].messages) >= 2
        /\ conversations[i].messages[1].role = "user"
        /\ conversations[i].messages[2].role = "assistant"

(***************************************************************************)
(* C11: updateMessage on an existing conversation and an existing message  *)
(* sets exactly the fields of the update on that message; the message's    *)
(* other fields, the other messages, and the order and length of the list  *)
(* are unchanged.                                                          *)
(***************************************************************************)
C11_PartialMerge ==
    [][ \A id \in ConvIds(Store) : \A mid \in MsgIdInputs(id) \ {0}, u \in StoreUpdates :
            (lastCall'.op = "updateMessage" /\ CallUpdateMessage(id, mid, u)) =>
                LET before == MessagesOf(Store, id)
                    after == MessagesOf(StoreNext, id)
                IN  /\ Len(after) = Len(before)
                    /\ \A j \in 1..Len(before) :
                          IF before[j].id = mid
                          THEN /\ DOMAIN after[j] = (DOMAIN before[j]) \cup (DOMAIN u)
                               /\ \A f \in DOMAIN u : after[j][f] = u[f]
                               /\ \A f \in (DOMAIN before[j]) \ (DOMAIN u) :
                                     after[j][f] = before[j][f]
                          ELSE after[j] = before[j]
      ]_vars

\* the last call updated the user message of a conversation that holds
\* another message too: its content is the update's, its role is kept
C11_Witness ==
    /\ lastCall.op = "updateMessage"
    /\ HasMessage(lastCall.conversationId, lastCall.messageId)
    /\ Len(MessagesOf(Store, lastCall.conversationId)) >= 2
    /\ TheMessage(lastCall.conversationId, lastCall.messageId).role = "user"
    /\ TheMessage(lastCall.conversationId, lastCall.messageId).content = Hi

(***************************************************************************)
(* C12: in a conversation created with the default title the first user    *)
(* message rewrites the title; no addMessage after it changes the title    *)
(* again, whatever the contents; an assistant message never changes it.    *)
(***************************************************************************)
C12_TitleDerivedOnce ==
    [][ \A id \in ConvIds(Store), m \in TitleMessages :
            CallAddMessage(id, m) =>
                LET c == getConversation(Store, id)
                    d == getConversation(StoreNext, id)
                    hadUser == \E j \in 1..Len(c.messages) : c.messages[j].role = "user"
                IN  /\ m.role = "assistant" => d.title = c.title
                    /\ hadUser => d.title = c.title
                    /\ (m.role = "user" /\ ~hadUser /\ m.content # DefaultTitle)
                          => d.title # c.title
      ]_vars

(***************************************************************************)
(* C13: the title derived from the first user message is the message when  *)
(* it has at most 50 characters, else its first 50 characters followed by  *)
(* the ellipsis marker; the title never exceeds 51 characters.             *)
(***************************************************************************)
C13_TitleAtMost51 ==
    \A i \in 1..Len(conversations) :
        LET c == conversations[i]
            users == SelectSeq(c.messages, LAMBDA m : m.role = "user")
        IN  Len(users) = 1 =>
                LET content == users[1].content
                IN  /\ Len(content) <= TitleLimit => c.title = content
                    /\ Len(content) > TitleLimit =>
                          /\ Len(c.title) > TitleLimit
                          /\ SubSeq(c.title, 1, TitleLimit) = SubSeq(content, 1, TitleLimit)
                    /\ Len(c.title) <= TitleLimit + 1

(***************************************************************************)
(* C14: updateMessage with an unknown conversation id, or with a message   *)
(* id the conversation does not contain, changes nothing: no conversation's*)
(* messages, title or updatedAt, and not the current id.                   *)
(***************************************************************************)
C14_UnknownIdNoOp ==
    [][ \A id \in ConvIdInputs : \A mid \in MsgIdInputs(id), u \in UpdateInputs :
            ((id \notin ConvIds(Store) \/ ~HasMessage(id, mid))
                /\ UpdateMessage(id, mid, u))
            => UNCHANGED <<conversations, currentConversationId>>
      ]_vars

(***************************************************************************)
(* C15: addMessage with a conversation id that does not exist leaves the   *)
(* conversation list, every conversation and the current id unchanged.     *)
(***************************************************************************)
C15_AddToUnknownNoOp ==
    [][ \A id \in IdInputs \ ConvIds(Store), m \in StoreMessages :
            (lastCall'.op = "addMessage" /\ CallAddMessage(id, m))
            => UNCHANGED <<conversations, currentConversationId>>
      ]_vars

\* the last call added a message to a conversation that does not exist,
\* while other conversations do
C15_Witness ==
    /\ lastCall.op = "addMessage"
    /\ lastCall.conversationId \notin ConvIds(Store)
    /\ conversations # <<>>

(***************************************************************************)
(* C16: createConversation puts the new conversation at the head of the    *)
(* list, the previous conversations following in their order, makes it     *)
(* current and returns its id, which getConversation resolves at once.     *)
(***************************************************************************)
C16_CreatePrepends ==
    [][ \A title \in Titles :
            (lastCall'.op = "createConversation" /\ CallCreateConversation(title)) =>
                LET id == lastCall'.result
                IN  /\ id \notin ConvIds(Store)
                    /\ Len(conversations') = Len(conversations) + 1
                    /\ conversations'[1].id = id
                    /\ conversations'[1].title = title
                    /\ conversations'[1].messages = <<>>
                    /\ Tail(conversations') = conversations
                    /\ currentConversationId' = id
                    /\ getConversation(StoreNext, id) = conversations'[1]
      ]_vars

\* the last call created a conversation in front of two earlier ones
C16_Witness ==
    /\ lastCall.op = "createConversation"
    /\ Len(conversations) >= 3
    /\ conversations[1].id = lastCall.result
    /\ currentConversationId = lastCall.result

(***************************************************************************)
(* C17: deleteConversation(id) removes that conversation and keeps the     *)
(* others in order; a deleted current conversation is replaced by the      *)
(* first remaining one, or null; otherwise the current id is unchanged;    *)
(* deleting an absent id, or the same id again, changes nothing.           *)
(***************************************************************************)
C17_DeleteIdempotent ==
    [][ \A id \in DeleteInputs :
            (lastCall'.op = "deleteConversation" /\ CallDeleteConversation(id)) =>
                LET rest == SelectSeq(conversations, LAMBDA c : c.id # id)
                IN  /\ conversations' = rest
                    /\ id \in ConvIds(Store) =>
                          currentConversationId' =
                              IF currentConversationId = id
                              THEN (IF rest = <<>> THEN 0 ELSE rest[1].id)
                              ELSE currentConversationId
                    /\ id \notin ConvIds(Store) =>
                          UNCHANGED <<conversations, currentConversationId>>
                    /\ deleteConversation(StoreNext, id) = StoreNext
      ]_vars

(***************************************************************************)
(* C18: from the moment an uploadAll call selects pending items until each *)
(* of them has reached success or error, isUploading is true, whatever     *)
(* else happens meanwhile, a second uploadAll call included.               *)
(***************************************************************************)
C18_IsUploadingCoversBatch ==
    \A b \in 1..Len(batches) :
        (\E id \in batches[b].open : FindItem(items, id).status = "uploading")
        => isUploading = TRUE

(***************************************************************************)
(* C19: in a batch each item whose backend call rejects ends in error with *)
(* the failure message stored, each other item ends in success, and no     *)
(* failure prevents or aborts a sibling upload: the completion of one      *)
(* upload changes its own item only and leaves the other uploads running,  *)
(* and the batch ends only when all its uploads have ended.                *)
(***************************************************************************)
C19_FailureIsolation ==
    /\ [](\A b \in 1..Len(batches) : batches[b].closed => batches[b].open = {})
    /\ [][ \A u \in uploads, outcome \in {"resolved"} \cup IngestFailures :
              (uploads' # uploads /\ UploadSettles(u, outcome)) =>
                  /\ Len(items') = Len(items)
                  /\ \A j \in 1..Len(items) :
                        IF items[j].id = u.id
                        THEN IF outcome = "resolved"
                             THEN /\ items'[j].status = "success"
                                  /\ items'[j].error = items[j].error
                             ELSE /\ items'[j].status = "error"
                                  /\ items'[j].error = outcome
                        ELSE items'[j] = items[j]
                  /\ uploads' = uploads \ {u}
         ]_vars

\* the one batch, of three items, has finished and one item was rejected:
\* two items are in success and one is in error with the message
C19_Witness ==
    /\ Len(batches) = 1
    /\ batches[1].closed
    /\ batches[1].size = 3
    /\ Len(items) = 3
    /\ Len(SelectSeq(items, LAMBDA item : item.status = "success")) = 2
    /\ \E i \in 1..Len(items) :
          /\ items[i].status = "error"
          /\ items[i].error \in IngestFailures

(***************************************************************************)
(* C20: the status of an item changes only pending -> uploading,           *)
(* uploading -> success, uploading -> error and error -> pending; the last *)
(* only in a retryItem call; an item in success never changes status; a    *)
(* new item is pending.                                                    *)
(***************************************************************************)
C20_Lifecycle ==
    [][ items' # items =>
        /\ \A i \in 1..Len(items) :
              LET a == items[i].status
                  z == FindItem(items', items[i].id).status
              IN  \/ z = a
                  \/ z = "absent"
                  \/ /\ <<a, z>> \in {<<"pending", "uploading">>, <<"uploading", "success">>,
                                      <<"uploading", "error">>, <<"error", "pending">>}
                     /\ a = "error" => RetryItem(items[i].id)
        /\ \A i \in 1..Len(items') :
              items'[i].id \notin ItemIds(items) => items'[i].status = "pending"
      ]_vars

\* retryItem has just put an item that was in error back to pending, next
\* to an item that is in success
C20_Witness ==
    /\ retrying # 0
    /\ FindItem(items, retrying).status = "pending"
    /\ \E i \in 1..Len(items) : items[i].status = "success"


(***************************************************************************)
(* C21: in every state of the queue a success item has progress 100, a     *)
(* pending item has progress 0 and no error text, and an error item has    *)
(* progress 0 and an error text.                                           *)
(***************************************************************************)
C21_StatusProgress ==
    \A i \in 1..Len(items) :
        LET item == items[i]
        IN  /\ item.status = "success" => item.progress = 100
            /\ item.status = "pending" => item.progress = 0 /\ item.error = "undefined"
            /\ item.status = "error" =>
                    /\ item.progress = 0
                    /\ item.error # "undefined"
                    /\ item.error # ""

\* a retried item back at pending, beside a success item and an error item
C21_Witness ==
    /\ retrying # 0
    /\ FindItem(items, retrying).status = "pending"
    /\ \E i, j \in 1..Len(items) :
            /\ items[i].status = "success"
            /\ items[j].status = "error"


(***************************************************************************)
(* C22: retryItem on an error item first shows the item as pending with    *)
(* progress 0 and no error text, and only then moves it to uploading: an   *)
(* item leaves error only to that pending state, the next step of the      *)
(* retry is the start of its upload, an item enters uploading only from    *)
(* pending, and as long as it is pending or uploading its progress is 0.   *)
(***************************************************************************)
C22_RetryThroughPending ==
    [][items' # items =>
        /\ \A i \in 1..Len(items) :
              LET a == items[i]
                  z == FindItem(items', a.id)
              IN  /\ (a.status = "error" /\ z.status \notin {"error", "absent"}) =>
                          /\ z.status = "pending"
                          /\ z.progress = 0
                          /\ z.error = "undefined"
                          /\ retrying' = a.id
                  /\ (z.status = "uploading" /\ a.status # "uploading") =>
                          a.status = "pending" /\ a.progress = 0
                  /\ (a.status \in {"pending", "uploading"}
                          /\ z.status \in {"pending", "uploading"}) => z.progress = 0
        /\ retrying # 0 =>
              /\ FindItem(items, retrying).status = "pending"
              /\ FindItem(items', retrying).status = "uploading"
              /\ \E u \in uploads' \ uploads : u.id = retrying
    ]_vars

\* the retried item is observable as pending, its upload not yet started,
\* while an upload of another item is in flight
C22_Witness ==
    /\ retrying # 0
    /\ FindItem(items, retrying) =
           NewItem(retrying, UrlName, "url")
    /\ \A u \in uploads : u.id # retrying
    /\ uploads # {}


(***************************************************************************)
(* C23: when the upload of an item that was removed from the queue while   *)
(* the upload was in flight completes, with success or with failure, the   *)
(* queue is left exactly as it was: the item does not reappear and no      *)
(* other item is changed.                                                  *)
(***************************************************************************)
C23_RemovedStaysRemoved ==
    [][(uploads' # uploads /\ uploads' \subseteq uploads) =>
          \A u \in uploads \ uploads' :
              u.id \notin ItemIds(items) => items' = items
    ]_vars

\* the upload of a removed item has just completed while another item of the
\* queue is still uploading
C23_Witness ==
    /\ lastCall.op = "uploadSettles" /\ ~lastCall.present
    /\ \E i \in 1..Len(items) : items[i].status = "uploading"
    /\ \E i \in 1..Len(items) : items[i].status = "success"
    /\ \A i \in 1..Len(items) : items[i].status # "error"
    /\ Cardinality(uploads) = 1
    /\ nextItemId = 4


(***************************************************************************)
(* C24: getTotalProgress is the arithmetic mean of the progress fields of  *)
(* all items: on a non-empty queue its value times the number of items is  *)
(* the sum of the progress fields, so that N pending items and one success *)
(* item give exactly 100/(N+1).                                            *)
(***************************************************************************)
C24_ExactMean ==
    items # <<>> => getTotalProgress(items) * Len(items) = SumProgress(items)


(***************************************************************************)
(* C25: getTotalProgress returns 0 on an empty queue, and P on a queue     *)
(* that is not empty and whose items all have the same progress P, for     *)
(* every integer P of 0..100.                                              *)
(***************************************************************************)
C25_ConstantProgress ==
    lastCall.op = "getTotalProgress" =>
        /\ items = <<>> => lastCall.result = 0
        /\ \A P \in 0..FullProgress :
              (items # <<>> /\ \A i \in 1..Len(items) : items[i].progress = P) =>
                  lastCall.result = P

\* the total progress of three items that are all at 37 has been read
C25_Witness ==
    /\ lastCall.op = "getTotalProgress"
    /\ Len(items) = 3
    /\ \A i \in 1..Len(items) : items[i].progress = 37
    /\ lastCall.result = 37


(***************************************************************************)
(* C26: when the streaming endpoint answers with a non-2xx status, the     *)
(* callbacks of the request receive the error and then close at once, and  *)
(* no retry is scheduled.                                                  *)
(***************************************************************************)
C26_Non2xxIsTerminal ==
    [][\A n \in 1..Len(conn) :
          (conn[n].pc = "fetching" /\ FetchFail(n, "SSE connection failed: 500")) =>
              /\ timers' = timers
              /\ log' = log \o <<Callback(n, "error", <<"SSE connection failed: 500">>),
                                  Callback(n, "close", <<>>)>>
    ]_vars


(***************************************************************************)
(* C27: uploadItem(id) on an item that is absent or not pending, and       *)
(* retryItem(id) on an item that is absent or not in error, start no       *)
(* backend call and leave the items and isUploading as they were: a step   *)
(* that changes the items, isUploading or the uploads in flight is not     *)
(* such a call.                                                            *)
(***************************************************************************)
C27_GuardedNoOps ==
    [][(/\ lastCall'.op \in {"uploadItem", "retryItem"}
        /\ \/ items' # items
           \/ isUploading' # isUploading
           \/ uploads' # uploads
           \/ retrying' # retrying) =>
          \A id \in ItemIdInputs :
              /\ FindItem(items, id).status # "pending" => ~CallUploadItem(id)
              /\ FindItem(items, id).status # "error" => ~CallRetryItem(id)
    ]_vars

\* retryItem has returned at its guard while a batch is uploading and the
\* queue holds a success item and no error item
C27_Witness ==
    /\ lastCall = [op |-> "retryItem", noop |-> TRUE]
    /\ isUploading
    /\ \E i \in 1..Len(items) : items[i].status = "success"
    /\ \A i \in 1..Len(items) : items[i].status # "error"
    /\ Len(items) < nextItemId - 1


(***************************************************************************)
(* C28: retryCount is reset only by a connect or a disconnect of the       *)
(* caller, never by a step of the retry sequence itself: a retry timer     *)
(* that fires leaves retryCount as it is, and a failure that schedules a   *)
(* retry raises it by one.                                                 *)
(***************************************************************************)
C28_RetryCountDiscipline ==
    [][/\ timers' # timers /\ timers' \subseteq timers => retryCount' = retryCount
       /\ timers' # timers /\ timers \subseteq timers' => retryCount' = retryCount + 1
    ]_vars

\* the number of the attempt n within the retry sequence of its call
RECURSIVE AttemptIndex(_)
AttemptIndex(n) == IF conn[n].top THEN 1 ELSE 1 + AttemptIndex(conn[n].by)

\* the first attempt of the retry sequence of attempt n
RECURSIVE TopOf(_)
TopOf(n) == IF conn[n].top THEN n ELSE TopOf(conn[n].by)

(***************************************************************************)
(* C29: the retry scheduled by the k-th consecutive failure of a call      *)
(* (k = 1, 2, 3) has delay k x 1000 ms and carries the query and the       *)
(* callbacks of the original call.                                         *)
(***************************************************************************)
C29_LinearBackoff ==
    \A t \in timers :
        AttemptIndex(t.by) <= maxRetries =>
            /\ t.delay = AttemptIndex(t.by) * retryDelay
            /\ t.query = conn[TopOf(t.by)].query
            /\ t.cb = conn[TopOf(t.by)].cb

(***************************************************************************)
(* C30: a retry is scheduled only by an attempt that failed before any     *)
(* byte of the response was received: an attempt that has dispatched an    *)
(* event schedules no retry and is followed by none, and no event of the   *)
(* body is delivered to the same callbacks by two attempts.                *)
(***************************************************************************)
C30_RetryOnlyBeforeFirstByte ==
    /\ \A n \in Conns :
          (\E t \in timers : t.by = n) \/ (\E m \in Conns : ~conn[m].top /\ conn[m].by = n)
              => EventsOfConn(n) = <<>>
    /\ \A i, j \in 1..Len(log) :
          (i < j /\ log[i].at > 0 /\ log[i].cb = log[j].cb /\ log[i].at = log[j].at)
              => log[i].conn = log[j].conn


(***************************************************************************)
(* C31: once the conversation a stream writes to has been deleted, every   *)
(* step made on behalf of that stream, its updateMessage included, leaves  *)
(* the conversations and the current id as they were, and no step puts a   *)
(* conversation of the deleted id back.                                    *)
(***************************************************************************)
C31_DeletedTargetNoOp ==
    [][(home.pc = "streaming" /\ home.conversationId \notin ConvIds(Store)) =>
          /\ (home' # home /\ home'.turns = home.turns) =>
                 /\ conversations' = conversations
                 /\ currentConversationId' = currentConversationId
          /\ home.conversationId \notin
                 {conversations'[i].id : i \in 1..Len(conversations')}
    ]_vars

\* the stream has delivered done after its conversation was deleted, and
\* another conversation is in the list
C31_Witness ==
    /\ home.outcome = "done"
    /\ home.conversationId # 0
    /\ home.conversationId \notin ConvIds(Store)
    /\ conversations # <<>>


\* the text of the body of request n received so far
Received(n) == SubSeq(conn[n].wire, 1, Len(conn[n].wire) - Len(conn[n].rest))

(***************************************************************************)
(* C32: after any number of reads, however the body was cut into chunks,   *)
(* the lines handed to event recognition are the newline-terminated lines  *)
(* of the text received so far, each once, and the buffer is the text      *)
(* after the last newline: lines and buffer together are the received      *)
(* text, and every callback comes from a whole line of the body.           *)
(***************************************************************************)
C32_LineReassembly ==
    \A n \in Conns :
        LET pieces == SplitNL(Received(n))
            lines == SubSeq(pieces, 1, Len(pieces) - 1)
        IN  /\ conn[n].seen = Len(lines)
            /\ conn[n].buffer = pieces[Len(pieces)]
            /\ Flatten(lines) \o conn[n].buffer = Received(n)
            /\ \A i \in 1..Len(log) :
                  (log[i].conn = n /\ log[i].at > 0) =>
                      /\ log[i].at <= Len(lines)
                      /\ lines[log[i].at] = EventLine(log[i].kind)

\* a line that arrived in two reads has been dispatched, and the start of
\* the next line is waiting in the buffer
C32_Witness ==
    \E n \in Conns :
        /\ conn[n].chunks >= 3
        /\ conn[n].seen = 2
        /\ conn[n].buffer = <<EventPrefix>>
        /\ Len(EventsOfConn(n)) = 1


(***************************************************************************)
(* C33: of a body that has been read to its end, every event (an event:    *)
(* line immediately followed by a data: line) whose payload parses caused  *)
(* one callback of the kind it names with the parsed value; a message      *)
(* event whose payload does not parse caused one message callback with the *)
(* raw payload text; an event of another kind whose payload does not parse *)
(* caused no callback.                                                     *)
(***************************************************************************)
C33_PayloadDecoding ==
    \A n \in Conns :
        (conn[n].pc = "reading" /\ conn[n].rest = <<>>) =>
            LET lines == WireLines(conn[n].wire)
                got == EventsOfConn(n)
            IN  \A i \in 1..(Len(lines) - 1) :
                    (StartsWith(lines[i], EventPrefix) /\ StartsWith(lines[i + 1], DataPrefix)) =>
                        LET eventType == SliceAfterPrefix(lines[i])
                            data == SliceAfterPrefix(lines[i + 1])
                            mine == SelectSeq(got, LAMBDA e : e.at = i)
                        IN  IF JSONParses(data)
                            THEN /\ Len(mine) = 1
                                 /\ <<mine[1].kind>> = eventType
                                 /\ mine[1].data = <<JSONParse(data[1])>>
                            ELSE IF eventType = <<"message">>
                                 THEN /\ Len(mine) = 1
                                      /\ mine[1].kind = "message"
                                      /\ mine[1].data = data
                                 ELSE mine = <<>>


\* line i of lines opens a well-formed event: an event: line immediately
\* followed by a data: line
OpensEvent(lines, i) ==
    /\ i \in 1..(Len(lines) - 1)
    /\ StartsWith(lines[i], EventPrefix)
    /\ StartsWith(lines[i + 1], DataPrefix)

\* line j of lines belongs to no well-formed event
Malformed(lines, j) ==
    /\ j \in 1..Len(lines)
    /\ ~OpensEvent(lines, j)
    /\ ~(j > 1 /\ OpensEvent(lines, j - 1))

(***************************************************************************)
(* C34: a line that belongs to no well-formed event: / data: pair causes   *)
(* no callback, neither error nor close fires while the body is read, and  *)
(* every well-formed event that follows such a line is still dispatched    *)
(* (when its payload parses or it is a message event).                     *)
(***************************************************************************)
C34_MalformedNotFatal ==
    \A n \in Conns :
        (conn[n].pc = "reading" /\ conn[n].rest = <<>>) =>
            LET lines == WireLines(conn[n].wire)
                got == CallsOfConn(n)
            IN  /\ \A k \in 1..Len(got) :
                      /\ got[k].kind # "close"
                      /\ got[k].at = 0 => got[k].kind = "open"
                      /\ got[k].at > 0 => ~Malformed(lines, got[k].at)
                /\ \A i \in 1..Len(lines) :
                      ( /\ OpensEvent(lines, i)
                        /\ \E j \in 1..(i - 1) : Malformed(lines, j)
                        /\ \/ JSONParses(SliceAfterPrefix(lines[i + 1]))
                           \/ lines[i] = EventLine("message") )
                      => \E k \in 1..Len(got) : got[k].at = i


(***************************************************************************)
(* C35: whatever the outcome of the backend call, the promise of           *)
(* uploadItem resolves, so that the Promise.all of uploadAll and the await *)
(* of retryItem never reject: a batch ends only with all its uploads       *)
(* ended, no item is left uploading without a backend call, and a          *)
(* rejected call shows as the error status and message of its item.        *)
(***************************************************************************)
C35_UploadErrorsNeverEscape ==
    /\ [](lastCall.op = "uploadSettles" => ~lastCall.rejects)
    /\ [](\A i \in 1..Len(items) :
              items[i].status = "uploading" => \E u \in uploads : u.id = items[i].id)
    /\ [][\A u \in uploads, outcome \in IngestFailures :
              (uploads' # uploads /\ u.id \in ItemIds(items)
                  /\ CallUploadSettles(u, outcome)) =>
                  /\ FindItem(items', u.id).status = "error"
                  /\ FindItem(items', u.id).error = outcome
                  /\ u.batch # 0 =>
                         (batches'[u.batch].closed => batches'[u.batch].open = {})
          ]_vars

\* the backend call of the only item ever added was rejected and the
\* promise resolved: the item shows the error and no batch is open
C35_Witness ==
    /\ lastCall.op = "uploadSettles" /\ lastCall.present /\ ~lastCall.rejects
    /\ nextItemId = 2
    /\ Len(items) = 1
    /\ items[1].status = "error"
    /\ items[1].error \in IngestFailures
    /\ batches # <<>>
    /\ \A b \in 1..Len(batches) : batches[b].closed
    /\ ~isUploading


(***************************************************************************)
(* C36: with uploads of several items running, each start and each         *)
(* completion of an upload writes its own item only: the item of an upload *)
(* that starts becomes uploading, the item of an upload that ends becomes  *)
(* success with the result or error with the failure message, and every    *)
(* other item is left as it was; so a file item, whose upload cannot fail, *)
(* is never in error whatever happens to its siblings.                     *)
(***************************************************************************)
C36_NoLostUpdates ==
    /\ [](\A i \in 1..Len(items) : items[i].type = "file" => items[i].status # "error")
    /\ [][uploads' # uploads =>
            /\ Len(items') = Len(items)
            /\ \A j \in 1..Len(items) :
                  LET id == items[j].id IN
                  IF \E u \in uploads' \ uploads : u.id = id
                  THEN items'[j] = [items[j] EXCEPT !.status = "uploading", !.progress = 0]
                  ELSE IF \E u \in uploads \ uploads' : u.id = id
                  THEN \/ items'[j] = [items[j] EXCEPT !.status = "success",
                                                       !.progress = 100,
                                                       !.result = "result"]
                       \/ \E m \in IngestFailures :
                             items'[j] = [items[j] EXCEPT !.status = "error",
                                                         !.progress = 0,
                                                         !.error = m]
                  ELSE items'[j] = items[j]
          ]_vars

\* of three uploads started together one has succeeded and one has failed
\* while the third is still running
C36_Witness ==
    /\ Len(batches) = 1
    /\ batches[1].size = 3
    /\ ~batches[1].closed
    /\ Len(items) = 3
    /\ items[1].status = "uploading"
    /\ items[2].status = "error"
    /\ items[3].status = "success"
    /\ Cardinality(uploads) = 1


\* the call that scheduled retry timer t has been superseded: disconnect()
\* was called, or a newer connect of the caller started, after the failed
\* attempt
Superseded(t) == conn[t.by].aborted \/ t.cb < nCalls

(***************************************************************************)
(* C37: once a connect call has been superseded by disconnect() or by a    *)
(* newer connect of the caller, it makes no further connection attempt:    *)
(* the retry timer it scheduled before does not start a request (which     *)
(* would abort the request of the newer call and serve its own callbacks). *)
(***************************************************************************)
C37_SupersededIsDead ==
    [][Len(conn') > Len(conn) =>
          \A t \in timers :
              Superseded(t) => ~TimerFire(t)
    ]_vars


(***************************************************************************)
(* C38: when the promise of a connect made by the caller has resolved (the *)
(* invocation has run to its end), the close callback of the call has      *)
(* fired and no retry of the call is pending or running.                   *)
(***************************************************************************)
C38_ResolvesAfterClose ==
    \A n \in Conns :
        (conn[n].top /\ conn[n].pc = "ended") =>
            /\ \E i \in 1..Len(log) : log[i].cb = conn[n].cb /\ log[i].kind = "close"
            /\ \A t \in timers : t.cb # conn[n].cb
            /\ \A m \in Attempts(conn[n].cb) : conn[m].pc = "ended"


(***************************************************************************)
(* C39: from the empty store, after any sequence of createConversation,    *)
(* deleteConversation, clearConversations, addMessage and updateMessage    *)
(* calls, currentConversationId is null or the id of a conversation in the *)
(* list, and it is null only while the list is empty.                      *)
(***************************************************************************)
C39_CurrentSelectionValid ==
    /\ currentConversationId \in ConvIds(Store) \cup {0}
    /\ currentConversationId = 0 => conversations = <<>>

\* the current conversation was deleted while another one remained
C39_Witness ==
    /\ lastCall.op = "deleteConversation"
    /\ lastCall.wasCurrent
    /\ conversations # <<>>
    /\ currentConversationId = conversations[1].id


(***************************************************************************)
(* C40: under every interleaving of uploadAll, uploadItem and retryItem    *)
(* calls no item has two backend calls outstanding at once; an item        *)
(* becomes uploading only in a step that starts its one backend call, and  *)
(* it leaves uploading for success or error only in the step that ends     *)
(* that call, after which none is outstanding for it.                      *)
(***************************************************************************)
C40_OneUploadPerItem ==
    /\ [](\A u \in uploads, v \in uploads : u.id = v.id => u = v)
    /\ [][items' # items =>
            \A j \in 1..Len(items) :
                LET id == items[j].id
                    a == items[j].status
                    z == FindItem(items', id).status
                IN  /\ (a # "uploading" /\ z = "uploading") =>
                          /\ \A u \in uploads : u.id # id
                          /\ Cardinality({u \in uploads' : u.id = id}) = 1
                    /\ (a = "uploading" /\ z \in {"success", "error"}) =>
                          /\ Cardinality({u \in uploads : u.id = id}) = 1
                          /\ \A u \in uploads' : u.id # id
          ]_vars

\* two uploadAll calls overlap: each is still waiting for an upload of its
\* own, and an item of the first is still uploading
C40_Witness ==
    /\ Len(batches) = 2
    /\ ~batches[1].closed
    /\ ~batches[2].closed
    /\ \E u \in uploads, v \in uploads :
          /\ u.batch = 1
          /\ v.batch = 2
          /\ FindItem(items, u.id).status = "uploading"
          /\ FindItem(items, v.id).status = "uploading"

====
